---- MODULE Spec2Model ----
(***************************************************************************)
(* apytizer: composite endpoint tree, endpoint verbs and response caching. *)
(*                                                                         *)
(* Strings are sequences of one-character strings, so that str.strip("/")  *)
(* and the "/"-join of CompositeEndpoint.path are computed, not assumed.   *)
(* A Python set (and dict) keeps, with each element, the hash the element  *)
(* had when it was inserted; lookups compare that stored hash first and    *)
(* only then call __eq__ on the live objects.  hash(str) is modelled as    *)
(* the string itself (no collisions between different strings).            *)
(***************************************************************************)
EXTENDS Integers, Sequences, FiniteSets, TLC

\* ------------------------------------------------------------------ bounds
MaxNodes == 3
MaxUpdate == 2
MaxOps == 3

\* --------------------------------------------------------------- constants
None == 0
Sep == "/"
NoName == <<>>
RecursionError == <<"RecursionError">>
Nodes == 1..MaxNodes

\* the owners of verb methods: the nodes and the API client
Api == 0
Owners == {Api} \cup Nodes

\* the mappings callers hand in as cache=
CacheIds == {1, 2}

\* Keys a caller navigates with: strings, and integers (converted by str()).
StrKeys == {<<"x">>, <<"x", "/">>}
IntKeys == {1}

HTTPMethod == {"CONNECT", "HEAD", "GET", "POST", "PUT", "PATCH", "DELETE", "OPTIONS", "TRACE"}
DEFAULT_METHODS == {"HEAD", "GET", "POST", "PUT", "PATCH", "DELETE", "OPTIONS", "TRACE"}

VARIABLES
    created,    \* nodes that have been constructed
    segment,    \* CompositeEndpoint._path
    parent,     \* CompositeEndpoint._parent (None when detached)
    children,   \* _Children._endpoints: slots <<stored hash, element>> in iteration order
    methods,    \* BaseEndpoint.methods
    cacheOf,    \* BaseEndpoint.cache / BaseAPI.cache (None or a mapping)
    cache,      \* the cache mappings: entries with stored hash, key and value
    requests,   \* number of requests the client has sent (BaseAPI.request)
    log,        \* the verb calls made so far, on nodes and on the client
    client,     \* the API client: its class, base url, default headers and params, session
    adapter,    \* the TransportAdapter: its timeout and retry policy, and the send in progress
    state,      \* a state object: the layers of its ChainMap and the dicts they hold
    pager,      \* a generator made by Pagination: where it stands, its state, its calls
    local,      \* BaseEndpoint.headers and BaseEndpoint.params of node 1
    transport,      \* what the transport does with the 1st, 2nd, ... request sent
    ops,        \* number of operations performed so far
    last        \* the operation performed last, its arguments and outcome

treeVars == <<created, segment, parent, children>>
cacheVars == <<methods, cacheOf, cache, requests, log>>
netVars == <<client, adapter, state, pager, local, transport>>
vars == <<created, segment, parent, children, methods, cacheOf, cache,
          requests, log, client, adapter, state, pager, local, transport, ops, last>>

\* ------------------------------------------------------------ str helpers
RECURSIVE lstrip(_)
lstrip(s) ==
    IF s # <<>> /\ Head(s) = Sep THEN lstrip(Tail(s)) ELSE s

RECURSIVE rstrip(_)
rstrip(s) ==
    IF s # <<>> /\ s[Len(s)] = Sep THEN rstrip(SubSeq(s, 1, Len(s) - 1)) ELSE s

\* str.strip("/") as used by the path setter
strip(s) == rstrip(lstrip(s))

\* str(int) for the integers a caller navigates with
str(i) == IF i = 1 THEN <<"1">> ELSE <<"0">>

\* what the path setter stores for the keys callers use
RefKeys == StrKeys \cup {str(i) : i \in IntKeys}
Segments == {strip(k) : k \in RefKeys}

\* -------------------------------------------------------------- the path
\* CompositeEndpoint.path evaluated over a given parent map: the parent's
\* str() (its path) + "/" + own _path; Python's recursion limit ends a
\* cyclic parent chain with RecursionError.
\* (variant: only the immediate parent's own segment is prepended)
PathOfParentSegment(par, seg, n, fuel) ==
    IF par[n] = None THEN seg[n]
    ELSE seg[par[n]] \o <<Sep>> \o seg[n]

RECURSIVE PathOf(_, _, _, _)
PathOf(par, seg, n, fuel) ==
    IF par[n] = None THEN seg[n]
    ELSE IF fuel = 0 THEN RecursionError
    ELSE LET pp == PathOf(par, seg, par[n], fuel - 1)
         IN  IF pp = RecursionError THEN RecursionError
             ELSE pp \o <<Sep>> \o seg[n]

path(n) == PathOf(parent, segment, n, MaxNodes)

\* ------------------------------------------------------ Python set slots
RemoveAt(S, i) == SubSeq(S, 1, i - 1) \o SubSeq(S, i + 1, Len(S))
InsertAt(S, i, x) == SubSeq(S, 1, i - 1) \o <<x>> \o SubSeq(S, i, Len(S))

Elements(S) == {S[i].e : i \in 1..Len(S)}

\* slots a lookup of x (hash hx) can stop at: stored hash equal, and the
\* element identical or equal by CompositeEndpoint.__eq__ (live paths)
Matches(S, x, hx, par, seg) ==
    {i \in 1..Len(S) :
        /\ S[i].h = hx
        /\ \/ S[i].e = x
           \/ PathOf(par, seg, S[i].e, MaxNodes) = hx}

\* a probed slot whose element can no longer compute its path: __eq__ raises
EqRaises(S, x, hx, par, seg) ==
    \E i \in 1..Len(S) :
        /\ S[i].h = hx
        /\ S[i].e # x
        /\ PathOf(par, seg, S[i].e, MaxNodes) = RecursionError

\* _Children.__contains__ on the current state (FALSE also when it raises)
Contains(p, x) ==
    /\ path(x) # RecursionError
    /\ Matches(children[p], x, path(x), parent, segment) # {}

\* _Children.get: the first child in iteration order whose name is ref
GetIndex(S, seg, ref) ==
    IF \E i \in 1..Len(S) : seg[S[i].e] = ref
    THEN CHOOSE i \in 1..Len(S) :
            /\ seg[S[i].e] = ref
            /\ \A j \in 1..(i - 1) : seg[S[j].e] # ref
    ELSE 0

get(p, ref) ==
    LET i == GetIndex(children[p], segment, ref)
    IN  IF i = 0 THEN None ELSE children[p][i].e

\* ------------------------------------------------------------ bookkeeping
Op(op, ctx, arg, name, result, raised, present) ==
    [op |-> op, ctx |-> ctx, arg |-> arg, name |-> name, result |-> result,
     raised |-> raised, present |-> present,
     was |-> IF arg = None THEN None ELSE parent[arg],
     verb |-> "", resp |-> 0]

\* every operation counts; the model explores runs of at most MaxOps operations
Tick == ops < MaxOps /\ ops' = ops + 1

NoOp == Op("init", None, None, NoName, None, "", FALSE)

\* ------------------------------------------------------------- the client
\* Origin stands for a scheme and host such as "http://h"
Origin == "http://h"
\* url arguments given to the constructor, and what the url setter stores:
\* the argument with "/" appended unless it ends with one
UrlArgs == {<<"a">>, <<"a", "/">>, <<Origin, "/", "a">>}
UrlSetter(u) == IF u # <<>> /\ u[Len(u)] = Sep THEN u ELSE u \o <<Sep>>

\* header and parameter mappings: sets of key/value entries with distinct
\* keys; a value is a string, a list of strings or a mapping
StrVal(x) == [t |-> "str", v |-> <<x>>]
ListVal(xs) == [t |-> "list", v |-> xs]
DictVal(d) == [t |-> "dict", v |-> d]
Keys(d) == {e.k : e \in d}
\* the defaults a client is built with, and the arguments of a call
DefaultHeaders == {{}, {[k |-> "A", v |-> StrVal("1")]}}
DefaultParams == {{}, {[k |-> "A", v |-> ListVal(<<"1">>)]},
                  {[k |-> "A", v |-> DictVal({[k |-> "a", v |-> StrVal("1")]})]}}
HeaderArgs == {{}, {[k |-> "A", v |-> StrVal("2")]}, {[k |-> "B", v |-> StrVal("2")]}}
ParamArgs == {{}, {[k |-> "A", v |-> ListVal(<<"2">>)]},
              {[k |-> "A", v |-> DictVal({[k |-> "b", v |-> StrVal("2")]})]}}

\* utils.merge(a, b, overwrite=...): the mappings folded into a new dict
\* (None and the empty mapping are skipped). The values of the first mapping
\* are put into the new dict as they are; on a key of both, two dicts are
\* merged into the dict of the first mapping, in place, two lists are
\* concatenated into a new list, otherwise the later value replaces the
\* earlier when overwrite is set and ValueError is raised when it is not.
\* `value` is the dict returned, `first` the first mapping after the call.
\* (The second mapping never has more than one key, so the order in which
\* its keys are visited does not matter.)
RECURSIVE merge(_, _, _)
merge(a, b, overwrite) ==
    LET both == {z \in a \X b : z[1].k = z[2].k}
        kind(z) == IF z[1].v.t = "dict" /\ z[2].v.t = "dict" THEN "dict"
                   ELSE IF z[1].v.t = "list" /\ z[2].v.t = "list" THEN "list"
                   ELSE IF overwrite THEN "overwrite" ELSE "conflict"
        sub(z) == merge(z[1].v.v, z[2].v.v, overwrite)
        raises == \E z \in both :
                      \/ kind(z) = "conflict"
                      \/ kind(z) = "dict" /\ sub(z).raised # ""
        merged(z) == IF kind(z) = "dict" THEN DictVal(sub(z).value)
                     ELSE IF kind(z) = "list" THEN ListVal(z[1].v.v \o z[2].v.v)
                     ELSE z[2].v
        value == {x \in a : x.k \notin Keys(b)}
                 \cup {y \in b : y.k \notin Keys(a)}
                 \cup {[k |-> z[1].k, v |-> merged(z)] : z \in both}
    IN  IF a = {} \/ b = {} THEN [raised |-> "", value |-> a \cup b, first |-> a]
        ELSE IF raises THEN [raised |-> "ValueError", value |-> {}, first |-> a]
        ELSE [raised |-> "", value |-> value,
              first |-> {x \in a : x.k \notin Keys(b)}
                        \cup {[k |-> z[1].k,
                               v |-> IF kind(z) = "dict" THEN merged(z) ELSE z[1].v] :
                                z \in both}]

\* index of the last "/" of s, 0 when there is none
RECURSIVE LastSep(_, _)
LastSep(s, i) == IF i = 0 THEN 0 ELSE IF s[i] = Sep THEN i ELSE LastSep(s, i - 1)

\* the scheme and host of a url that has them, else nothing
OriginOf(u) == IF u # <<>> /\ Head(u) = Origin THEN <<Origin>> ELSE <<>>

\* urllib.parse.urljoin(base, route) for a base that ends with "/" and a
\* route without query, dot segments or "//" after the host: the base for
\* an empty route, the route itself when it has a scheme, the origin of the
\* base followed by the route when the route begins with "/", else the base
\* up to its last "/" followed by the route
urljoin(base, route) ==
    IF route = <<>> THEN base
    ELSE IF Head(route) = Origin THEN route
    ELSE IF Head(route) = Sep THEN OriginOf(base) \o route
    ELSE SubSeq(base, 1, LastSep(base, Len(base))) \o route

\* what the transport does with a request it is given
Outcomes == {"response", "ConnectionError", "Timeout", "TooManyRedirects"}

\* (variant: a timeout is raised to the caller)
confirm_connectionRaisesTimeout(outcome) ==
    IF outcome \in {"response", "ConnectionError"}
    THEN [raised |-> "", result |-> outcome]
    ELSE [raised |-> outcome, result |-> "none"]

\* decorators.confirm_connection: a ConnectionError or Timeout raised by the
\* wrapped request is returned; any other exception passes through
confirm_connection(outcome) ==
    IF outcome \in {"response", "ConnectionError", "Timeout"}
    THEN [raised |-> "", result |-> outcome]
    ELSE [raised |-> outcome, result |-> "none"]

\* a transport that answers every request
TransportUp == [i \in 1..MaxOps |-> "response"]

\* BaseAPI(url) / SessionAPI(url), headers and params given or not;
\* `adapter` is SessionAPI.adapter, `mounted` the adapter that the session
\* in use was made with, `dropped` the number of sessions that were replaced
\* by a new one without having been closed
Client(kind, u, h, q) ==
    [kind |-> kind, url |-> UrlSetter(u), headers |-> h, params |-> q, session |-> FALSE,
     within |-> FALSE, adapter |-> "none", mounted |-> "none", dropped |-> 0]

\* SessionAPI(url, adapter=a)
WithAdapter(c, a) == [c EXCEPT !.adapter = a]

DefaultClient == Client("BaseAPI", <<"a", "/">>, {}, {})

\* ------------------------------------------------------------ the adapter
DEFAULT_TIMEOUT == 5
NUMBER_OF_RETRIES == 10

\* the verbs make_retry allows a retry for
RetryMethods == {"HEAD", "GET", "POST", "PUT", "PATCH", "DELETE", "OPTIONS", "TRACE"}
\* the statuses make_retry forces a retry for
RetryStatuses == {413, 429, 500, 502, 503, 504}

\* (variant: POST and PATCH, the verbs that are not idempotent, are left out)
make_retryIdempotentOnly ==
    [total |-> NUMBER_OF_RETRIES, status_forcelist |-> RetryStatuses,
     allowed_methods |-> RetryMethods \ {"POST", "PATCH"}]

\* make_retry(rate_limit): the retry policy of an adapter built without one
\* (the rate limit sets the delay between attempts, not their number)
make_retry ==
    [total |-> NUMBER_OF_RETRIES, status_forcelist |-> RetryStatuses,
     allowed_methods |-> RetryMethods]

\* the policy HTTPAdapter makes of max_retries=<int>: that many retries of
\* failed connections, no status forcing a retry
from_int(n) ==
    [total |-> n, status_forcelist |-> {},
     allowed_methods |-> {"HEAD", "GET", "PUT", "DELETE", "OPTIONS", "TRACE"}]

\* max_retries arguments given to the constructor (Absent: not given)
Absent == -1
MaxRetriesArgs == {Absent, 1}
\* timeout arguments given to the constructor
TimeoutArgs == {DEFAULT_TIMEOUT, 2}

\* TransportAdapter(timeout=t, max_retries=m): max_retries defaults to
\* make_retry(rate_limit) when it is not given
TransportAdapter(t, m) ==
    [timeout |-> t,
     overridden |-> m # Absent,
     max_retries |-> IF m = Absent THEN make_retry ELSE from_int(m),
     phase |-> "idle", method |-> "GET", kw |-> Absent, sent |-> None,
     left |-> 0, attempts |-> 0, failures |-> 0, status |-> 0, result |-> "none"]

DefaultAdapter == TransportAdapter(DEFAULT_TIMEOUT, Absent)

\* ---------------------------------------------------------------- state
\* dict objects held as values, by identity
ObjIds == {1, 2}
\* a value: "" for no entry, a string, or a reference to a dict object
Ref(i) == IF i = 1 THEN "@1" ELSE "@2"
IsRef(v) == \E i \in ObjIds : v = Ref(i)
Id(v) == CHOOSE i \in ObjIds : v = Ref(i)

\* one layer of the ChainMap: the entries for the keys "s", "a" and "a.b"
\* (the last one a key that contains a dot); a nested dict: the entries for
\* the keys "b" and "c"
NoLayer == [s |-> "", a |-> "", dotted |-> ""]
NoDict == [b |-> ""]

\* BaseState(base, default) / _State(base, default):
\* ChainMap(base or {}, default or {})
\* the entry of the first layer that has one, for each key (what reading
\* the ChainMap gives), a nested dict read through
RECURSIVE First(_, _, _)
First(maps, i, key) ==
    IF i > Len(maps) THEN ""
    ELSE LET v == IF key = "s" THEN maps[i].s
                  ELSE IF key = "a" THEN maps[i].a ELSE maps[i].dotted
         IN  IF v # "" THEN v ELSE First(maps, i + 1, key)

Visible(maps, heap) ==
    LET a == First(maps, 1, "a")
    IN  [s |-> First(maps, 1, "s"), dotted |-> First(maps, 1, "a.b"),
         a |-> IF IsRef(a) THEN "dict" ELSE a,
         nested |-> IF IsRef(a) THEN heap[Id(a)] ELSE NoDict]

\* `saved` keeps what the state showed when it was built or last saved
State(kind, base, default, heap) ==
    [kind |-> kind, maps |-> <<base, default>>, heap |-> heap,
     saved |-> Visible(<<base, default>>, heap)]

DefaultState == State("BaseState", NoLayer, NoLayer, [i \in ObjIds |-> NoDict])

\* BaseEndpoint(api, path, headers=h, params=q): the node's own values
Local(h, q) == [headers |-> h, params |-> q]
DefaultLocal == Local({}, {})

\* ------------------------------------------------------------ pagination
\* the wrapper's generator right after wrapper(params=params) was called:
\* no statement of its body has run yet
Generator(params) ==
    [pos |-> "new",
     kwargs |-> [params |-> None],
     state |-> [params |-> params, results |-> None, total |-> None],
     response |-> [results |-> None, total |-> None],
     completed |-> FALSE,
     calls |-> 0, yielded |-> 0, sent |-> <<>>]

DefaultPager == Generator(None)

\* ------------------------------------------------------------------ Init
InitTree ==
    /\ created \in {{1}, {1, 2}}
    /\ segment \in [Nodes -> Segments]
    /\ \A n \in Nodes \ {2} : segment[n] = <<"x">>
    /\ \E built \in BOOLEAN :
          \* built: node 2 is the child that node 1 made for its segment
          /\ built => created = {1, 2}
          /\ parent = [n \in Nodes |-> IF built /\ n = 2 THEN 1 ELSE None]
          /\ children = [n \in Nodes |->
                IF built /\ n = 1
                THEN <<[e |-> 2, h |-> segment[1] \o <<Sep>> \o segment[2]]>>
                ELSE <<>>]
    /\ methods = [n \in Nodes |-> DEFAULT_METHODS]
    /\ cacheOf = [o \in Owners |-> None]
    /\ cache = [c \in CacheIds |-> <<>>]
    /\ requests = 0
    /\ log = <<>>
    /\ client = DefaultClient
    /\ adapter = DefaultAdapter
    /\ state = DefaultState
    /\ pager = DefaultPager
    /\ local = DefaultLocal
    /\ transport = TransportUp
    /\ ops = 0
    /\ last = NoOp

\* ----------------------------------------------------- set.add / discard
\* set.add(x): hash x (its live path), probe, insert when nothing matches.
\* The slot a new element lands in depends on its hash: any position.
AddOutcomes(S, x, par, seg) ==
    LET hx == PathOf(par, seg, x, MaxNodes)
        m  == Matches(S, x, hx, par, seg)
        r  == EqRaises(S, x, hx, par, seg)
    IN  IF hx = RecursionError
        THEN {[S |-> S, raised |-> "RecursionError"]}
        ELSE (IF r THEN {[S |-> S, raised |-> "RecursionError"]} ELSE {})
             \cup (IF m # {} THEN {[S |-> S, raised |-> ""]} ELSE {})
             \cup (IF m = {} /\ ~r
                   THEN {[S |-> InsertAt(S, i, [h |-> hx, e |-> x]), raised |-> ""] :
                            i \in 1..(Len(S) + 1)}
                   ELSE {})

\* set.discard(x) / set.remove(x): hash x, probe, delete the slot found.
\* found = FALSE is the case in which set.remove raises KeyError.
DiscardOutcomes(S, x, par, seg) ==
    LET hx == PathOf(par, seg, x, MaxNodes)
        m  == Matches(S, x, hx, par, seg)
        r  == EqRaises(S, x, hx, par, seg)
    IN  IF hx = RecursionError
        THEN {[S |-> S, raised |-> "RecursionError", found |-> FALSE]}
        ELSE (IF r THEN {[S |-> S, raised |-> "RecursionError", found |-> FALSE]} ELSE {})
             \cup {[S |-> RemoveAt(S, i), raised |-> "", found |-> TRUE] : i \in m}
             \cup (IF m = {} /\ ~r
                   THEN {[S |-> S, raised |-> "", found |-> FALSE]}
                   ELSE {})

\* set.update(iterable): set.add for each element in turn, stopping at the
\* first exception
RECURSIVE UpdateOutcomes(_, _, _, _)
UpdateOutcomes(S, cs, par, seg) ==
    IF cs = <<>> THEN {[S |-> S, raised |-> ""]}
    ELSE UNION {IF o.raised # "" THEN {o}
                ELSE UpdateOutcomes(o.S, Tail(cs), par, seg) :
                    o \in AddOutcomes(S, Head(cs), par, seg)}

\* --------------------------------------------------------- constructors
Fresh == CHOOSE n \in Nodes \ created : \A m \in Nodes \ created : n <= m

\* CompositeEndpoint(api, name): a detached node with the default methods,
\* no cache and an empty child collection
Construct(key) ==
    /\ Tick
    /\ created # Nodes
    /\ created' = created \cup {Fresh}
    /\ segment' = [segment EXCEPT ![Fresh] = strip(key)]
    /\ parent' = [parent EXCEPT ![Fresh] = None]
    /\ children' = [children EXCEPT ![Fresh] = <<>>]
    /\ last' = Op("construct", None, Fresh, strip(key), Fresh, "", FALSE)
    /\ UNCHANGED cacheVars
    /\ UNCHANGED netVars

\* values assigned to the path of a node
PathArgs == {<<"x", Sep, "x">>, <<"1", Sep>>}

\* what the path setter stores: the value without leading and trailing "/"
Stored(key) == strip(key)

\* node.path = key (the setter the constructor uses as well)
SetPath(n, key) ==
    /\ Tick
    /\ segment' = [segment EXCEPT ![n] = Stored(key)]
    /\ last' = Op("path", n, None, key, None, "", FALSE)
    /\ UNCHANGED <<created, parent, children>>
    /\ UNCHANGED cacheVars
    /\ UNCHANGED netVars

\* ------------------------------------------------------------ _Children
\* (variant: the element is inserted but its parent reference is not set)
ChildrenAddKeepsParent(p, c) ==
    /\ Tick
    /\ parent' = parent
    /\ \E o \in AddOutcomes(children[p], c, parent, segment) :
          /\ children' = [children EXCEPT ![p] = o.S]
          /\ last' = Op("add", p, c, NoName, None, o.raised, c \in Elements(children[p]))
    /\ UNCHANGED <<created, segment>>
    /\ UNCHANGED cacheVars
    /\ UNCHANGED netVars

\* _Children.add, also reached by  p + endpoint  and  p / endpoint
ChildrenAdd(p, c) ==
    LET par1 == [parent EXCEPT ![c] = p]
    IN  /\ Tick
        /\ parent' = par1
        /\ \E o \in AddOutcomes(children[p], c, par1, segment) :
              /\ children' = [children EXCEPT ![p] = o.S]
              /\ last' = Op("add", p, c, NoName, None, o.raised, c \in Elements(children[p]))
        /\ UNCHANGED <<created, segment>>
        /\ UNCHANGED cacheVars
        /\ UNCHANGED netVars

ChildrenClear(p) ==
    /\ Tick
    /\ children' = [children EXCEPT ![p] = <<>>]
    /\ last' = Op("clear", p, None, NoName, None, "", FALSE)
    /\ UNCHANGED <<created, segment, parent>>
    /\ UNCHANGED cacheVars
    /\ UNCHANGED netVars

ChildrenDiscard(p, c) ==
    /\ Tick
    /\ \E o \in DiscardOutcomes(children[p], c, parent, segment) :
          /\ children' = [children EXCEPT ![p] = o.S]
          /\ parent' = IF o.raised = "" /\ parent[c] = p
                       THEN [parent EXCEPT ![c] = None]
                       ELSE parent
          /\ last' = Op("discard", p, c, NoName, None, o.raised, c \in Elements(children[p]))
    /\ UNCHANGED <<created, segment>>
    /\ UNCHANGED cacheVars
    /\ UNCHANGED netVars

ChildrenGet(p, ref) ==
    /\ Tick
    /\ last' = Op("get", p, None, ref, get(p, ref), "", FALSE)
    /\ UNCHANGED treeVars
    /\ UNCHANGED cacheVars
    /\ UNCHANGED netVars

\* the effect of _Children.remove(c), shared with pop
RemoveEffect(p, c, op, ref, result) ==
    \E o \in DiscardOutcomes(children[p], c, parent, segment) :
        /\ children' = [children EXCEPT ![p] = o.S]
        /\ parent' = IF o.found THEN [parent EXCEPT ![c] = None] ELSE parent
        /\ last' = Op(op, p, c, ref, result,
                      IF o.raised # "" THEN o.raised
                      ELSE IF o.found THEN "" ELSE "KeyError",
                      c \in Elements(children[p]))

ChildrenRemove(p, c) ==
    /\ Tick
    /\ RemoveEffect(p, c, "remove", NoName, None)
    /\ UNCHANGED <<created, segment>>
    /\ UNCHANGED cacheVars
    /\ UNCHANGED netVars

ChildrenPop(p, ref) ==
    /\ Tick
    /\ IF get(p, ref) = None
       THEN /\ last' = Op("pop", p, None, ref, None, "", FALSE)
            /\ UNCHANGED <<parent, children>>
       ELSE RemoveEffect(p, get(p, ref), "pop", ref, get(p, ref))
    /\ UNCHANGED <<created, segment>>
    /\ UNCHANGED cacheVars
    /\ UNCHANGED netVars

\* iter_setattr(endpoints, "parent", context) for the one iterable, then
\* set.update
ChildrenUpdate(p, cs) ==
    LET par1 == [n \in Nodes |-> IF \E i \in 1..Len(cs) : cs[i] = n THEN p ELSE parent[n]]
    IN  /\ Tick
        /\ parent' = par1
        /\ \E o \in UpdateOutcomes(children[p], cs, par1, segment) :
              /\ children' = [children EXCEPT ![p] = o.S]
              /\ last' = Op("update", p, cs[1], NoName, None, o.raised, FALSE)
        /\ UNCHANGED <<created, segment>>
        /\ UNCHANGED cacheVars
        /\ UNCHANGED netVars

\* ------------------------------------------------------------ navigation
\* CompositeEndpoint._get_child: children.get(name) or _make_child(name);
\* op names the spelling that reached it
GetChildAs(op, p, name) ==
    IF get(p, name) # None
    THEN /\ Tick
         /\ last' = Op(op, p, None, name, get(p, name), "", FALSE)
         /\ UNCHANGED treeVars
         /\ UNCHANGED cacheVars
         /\ UNCHANGED netVars
    ELSE \* _make_child: CompositeEndpoint(self.api, name), then _add_child
         /\ Tick
         /\ created # Nodes
         /\ LET k    == Fresh
                seg1 == [segment EXCEPT ![k] = strip(name)]
                par1 == [parent EXCEPT ![k] = p]
            IN  /\ created' = created \cup {k}
                /\ segment' = seg1
                /\ parent' = par1
                /\ \E o \in AddOutcomes(children[p], k, par1, seg1) :
                      /\ children' = [children EXCEPT ![p] = o.S, ![k] = <<>>]
                      /\ last' = Op(op, p, None, name,
                                    IF o.raised = "" THEN k ELSE None, o.raised, FALSE)
         /\ UNCHANGED cacheVars
         /\ UNCHANGED netVars

\* _get_child reached by an operator or by item access
GetChild(p, name) == GetChildAs("nav", p, name)

\* p + "name", p / "name", p["name"], p.name
NavigateStr(p, key) == GetChild(p, key)

\* p + 1, p / 1, p[1]
NavigateInt(p, i) == GetChild(p, str(i))

\* names the attribute lookup resolves before __getattr__ is consulted (of
\* the properties, fields and methods of the class, the one named here)
Attributes == {<<"p", "a", "t", "h">>}
AttrKeys == {<<"x">>} \cup Attributes

\* (variant: an unknown attribute name raises instead of reaching _get_child)
NavigateAttrRaises(p, key) ==
    /\ Tick
    /\ last' = Op("getattr", p, None, key, None,
                  IF key \in Attributes THEN "" ELSE "AttributeError", FALSE)
    /\ UNCHANGED treeVars
    /\ UNCHANGED cacheVars
    /\ UNCHANGED netVars

\* p.name: __getattr__ runs only when the normal lookup finds no attribute
\* of that name; then it is _get_child(name)
NavigateAttr(p, key) ==
    IF key \in Attributes
    THEN /\ Tick
         /\ last' = Op("getattr", p, None, key, None, "", FALSE)
         /\ UNCHANGED treeVars
         /\ UNCHANGED cacheVars
         /\ UNCHANGED netVars
    ELSE GetChildAs("getattr", p, key)

\* ------------------------------------------------------------------ Next
\* keys that are neither str nor int (nor an endpoint), by their type, and the
\* operators a key is given through
OtherKeys == {"list", "float"}
Operators == {"__add__", "__getitem__", "__truediv__"}

\* p + key, p / key, p[key] for a key of a type no implementation is
\* registered for: the singledispatchmethod falls back to the base
\* implementation, which raises NotImplementedError
NavigateOther(p, operator, key) ==
    /\ Tick
    /\ last' = [operator |-> operator, key |-> key]
               @@ Op("navkey", p, None, NoName, None, "NotImplementedError", FALSE)
    /\ UNCHANGED treeVars
    /\ UNCHANGED cacheVars
    /\ UNCHANGED netVars

\* the iterables handed to update: up to MaxUpdate distinct nodes, listed
\* in ascending order
RECURSIVE Ascending(_)
Ascending(ns) ==
    IF ns = {} THEN <<>>
    ELSE LET m == CHOOSE a \in ns : \A b \in ns : a <= b
         IN  <<m>> \o Ascending(ns \ {m})

UpdateArgs ==
    {Ascending(ns) : ns \in {t \in SUBSET created : Cardinality(t) \in 1..MaxUpdate}}

NextTree ==
    \/ \E k \in RefKeys : Construct(k)
    \/ \E p \in created, k \in StrKeys : NavigateStr(p, k)
    \/ \E p \in created, i \in IntKeys : NavigateInt(p, i)
    \/ \E p \in created, k \in AttrKeys : NavigateAttr(p, k)
    \/ \E p \in created, o \in Operators, k \in OtherKeys : NavigateOther(p, o, k)
    \/ \E p \in created, c \in created : ChildrenAdd(p, c)
    \/ \E p \in created, c \in created : ChildrenDiscard(p, c)
    \/ \E p \in created, c \in created : ChildrenRemove(p, c)
    \/ \E p \in created, k \in Segments : ChildrenPop(p, k)
    \/ \E p \in created, k \in Segments : ChildrenGet(p, k)
    \/ \E p \in created : ChildrenClear(p)
    \/ \E n \in created, k \in PathArgs : SetPath(n, k)
    \/ \E p \in created, cs \in UpdateArgs : ChildrenUpdate(p, cs)

SpecTree == InitTree /\ [][NextTree]_vars

\* =========================================================== verb calls
VerbsCalled == {"GET", "POST"}
MethodChoices == {DEFAULT_METHODS, {"GET"}}
Routes == {<<"x">>}

\* keyword arguments as the caller wrote them: (name, value) in call order
KwArgs == {<<>>,
           <<<<"a", "1">>, <<"b", "2">>>>,
           <<<<"b", "2">>, <<"a", "1">>>>}

\* the order of str on the keyword names in use
Rank == [a |-> 1, b |-> 2, headers |-> 3, params |-> 4]

\* sorted(kwargs.items())
RECURSIVE sorted(_)
sorted(kw) ==
    IF kw = <<>> THEN <<>>
    ELSE LET m == CHOOSE i \in 1..Len(kw) :
                     \A j \in 1..Len(kw) : Rank[kw[i][1]] <= Rank[kw[j][1]]
         IN  <<kw[m]>> \o sorted(RemoveAt(kw, m))

\* a path as one str
RECURSIVE Str(_)
Str(s) == IF s = <<>> THEN "" ELSE Head(s) \o Str(Tail(s))

\* (variant: the keyword arguments are rendered in call order)
hash_parameters_unsorted(tag, self, args, kw) ==
    [verb |-> tag, owner |-> self,
     rest |-> args \o [i \in 1..Len(kw) |-> kw[i][1] \o "=" \o kw[i][2]]]

\* generate_key(tag)(self, *args, **kwargs): the flat tuple
\* (tag, self, *args, *["k=v" for k, v in sorted(kwargs.items())])
hash_parameters(tag, self, args, kw) ==
    [verb |-> tag, owner |-> self,
     rest |-> args \o [i \in 1..Len(kw) |-> sorted(kw)[i][1] \o "=" \o sorted(kw)[i][2]]]

\* hash(owner): BaseEndpoint.__hash__ is hash(path), AbstractAPI.__hash__ is
\* hash(url)
UrlHash == <<"u", "r", "l">>
OwnerHash(o) == IF o = Api THEN UrlHash ELSE path(o)

\* (variant: the hash of the key does not depend on the path of the owner)
KeyHashWithoutPath(key) == [verb |-> key.verb, oh |-> <<>>, rest |-> key.rest]

\* hash of the key tuple
KeyHash(key) == [verb |-> key.verb, oh |-> OwnerHash(key.owner), rest |-> key.rest]

\* dict lookup c[k]: entries with the stored hash of k are probed in insertion
\* order; an entry matches when its key equals k, the owners being the same
\* object or nodes with equal live paths
RECURSIVE Probe(_, _, _, _)
Probe(C, key, h, i) ==
    IF i > Len(C) THEN [kind |-> "miss", i |-> 0]
    ELSE IF C[i].h # h THEN Probe(C, key, h, i + 1)
    ELSE IF C[i].k.owner = key.owner THEN [kind |-> "hit", i |-> i]
    ELSE IF C[i].k.owner = Api \/ key.owner = Api THEN Probe(C, key, h, i + 1)
    ELSE IF path(C[i].k.owner) = RecursionError THEN [kind |-> "raise", i |-> i]
    ELSE IF path(C[i].k.owner) = path(key.owner) THEN [kind |-> "hit", i |-> i]
    ELSE Probe(C, key, h, i + 1)

\* the mapping holds only entries stored for owner o
Private(C, o) == \A i \in 1..Len(C) : C[i].k.owner = o

LogEntry(o, key, kw, cid, C, hit, raised, resp, entered, issued, stored) ==
    [t |-> ops + 1, owner |-> o, verb |-> key.verb, path |-> OwnerHash(o),
     rest |-> key.rest, kw |-> kw, cid |-> cid,
     private |-> IF cid = None THEN TRUE ELSE Private(C, o),
     allowed |-> IF o = Api THEN TRUE ELSE key.verb \in methods[o],
     hit |-> hit, raised |-> raised, resp |-> resp,
     entered |-> entered, issued |-> issued, stored |-> stored, url |-> <<>>]

\* (variant: the owner is taken to have no cache)
attrgetterNone(o) == None

\* operator.attrgetter("cache")(self): the owner's cache attribute, read when
\* the wrapper is called
attrgetter(o) == cacheOf[o]

\* (variant: the wrapper never finds a stored entry)
CachedNeverHits(cid, C, key) ==
    [kind |-> "miss", i |-> 0]

\* cachedmethod(attrgetter("cache"), key=...): what the wrapper does before
\* the method: no cache -> "none"; else hash the key and look it up
Cached(cid, C, key) ==
    IF cid = None THEN [kind |-> "none", i |-> 0]
    ELSE IF OwnerHash(key.owner) = RecursionError THEN [kind |-> "raise", i |-> 0]
    ELSE Probe(C[cid], key, KeyHash(key), 1)

\* (variant: only a response is stored)
StoresResponsesOnly(cid, returned) ==
    cid # None /\ returned.raised = "" /\ returned.result = "response"

\* cachedmethod: with a cache, whatever the method returns is stored; when
\* the method raises nothing is
Stores(cid, returned) ==
    cid # None /\ returned.raised = ""

\* BaseAPI.<verb>(route, **kw) behind cache_response; the body sends one
\* request, to the route joined to the base url, under confirm_connection,
\* and returns what that returns: the response, or the error caught
\* (requests are numbered as sent, and what a request returned is known by
\* its number)
ClientCall(C, reqs, lg, v, route, kw) ==
    LET cid == attrgetter(Api)
        key == hash_parameters(v, Api, <<Str(route)>>, kw)
        pr  == Cached(cid, C, key)
    IN  IF pr.kind = "hit"
        THEN [cache |-> C, requests |-> reqs, resp |-> C[cid][pr.i].v, raised |-> "",
              log |-> Append(lg, LogEntry(Api, key, kw, cid, C[cid], TRUE, "",
                                          C[cid][pr.i].v, FALSE, FALSE, FALSE))]
        ELSE LET r  == reqs + 1
                 cc == confirm_connection(transport[r])
                 rv == IF cc.raised = "" THEN r ELSE 0
                 C1 == IF Stores(cid, cc)
                       THEN [C EXCEPT ![cid] =
                               Append(@, [h |-> KeyHash(key), k |-> key, v |-> r])]
                       ELSE C
             IN  [cache |-> C1, requests |-> r, resp |-> rv, raised |-> cc.raised,
                  log |-> Append(lg, [LogEntry(Api, key, kw, cid,
                                               IF cid = None THEN <<>> ELSE C[cid],
                                               FALSE, cc.raised, rv, TRUE, TRUE,
                                               Stores(cid, cc))
                                        EXCEPT !.url = urljoin(client.url, route)])]

\* (variant: the body returns without calling the client)
EndpointBodySkipsClient(n, v, kw) ==
    [cache |-> cache, requests |-> requests, resp |-> 0, log |-> log,
     raised |-> IF v \in methods[n] THEN "" ELSE "NotImplementedError",
     issued |-> FALSE]

\* the body of BaseEndpoint.<verb>: the allow-list check, then the client's
\* verb at self.path with the merged (here absent) headers and params
EndpointBody(n, v, kw) ==
    IF v \notin methods[n]
    THEN [cache |-> cache, requests |-> requests, resp |-> 0, log |-> log,
          raised |-> "NotImplementedError", issued |-> FALSE]
    ELSE IF path(n) = RecursionError
    THEN [cache |-> cache, requests |-> requests, resp |-> 0, log |-> log,
          raised |-> "RecursionError", issued |-> FALSE]
    ELSE ClientCall(cache, requests, log, v, path(n),
                    <<<<"headers", "None">>, <<"params", "None">>>> \o kw)
            @@ [issued |-> TRUE]

VerbOp(o, v, raised, resp) ==
    [Op("verb", o, None, NoName, None, raised, FALSE) EXCEPT !.verb = v, !.resp = resp]

\* node.<verb>(**kw) behind cache_response: the outcome of one call
EndpointCall(n, v, kw) ==
    LET cid == attrgetter(n)
        key == hash_parameters(v, n, <<>>, kw)
        pr  == Cached(cid, cache, key)
        C0  == IF cid = None THEN <<>> ELSE cache[cid]
    IN  IF pr.kind = "raise"
        THEN [cache |-> cache, requests |-> requests, raised |-> "RecursionError", resp |-> 0,
              log |-> Append(log, LogEntry(n, key, kw, cid, C0, FALSE, "RecursionError",
                                           0, FALSE, FALSE, FALSE))]
        ELSE IF pr.kind = "hit"
        THEN [cache |-> cache, requests |-> requests, raised |-> "",
              resp |-> cache[cid][pr.i].v,
              log |-> Append(log, LogEntry(n, key, kw, cid, C0, TRUE, "",
                                           cache[cid][pr.i].v, FALSE, FALSE, FALSE))]
        ELSE LET b == EndpointBody(n, v, kw)
                 returned == [raised |-> b.raised,
                              result |-> IF b.resp = 0 THEN "none" ELSE transport[b.resp]]
             IN  [cache |-> IF Stores(cid, returned)
                            THEN [b.cache EXCEPT ![cid] =
                                    Append(@, [h |-> KeyHash(key), k |-> key, v |-> b.resp])]
                            ELSE b.cache,
                  requests |-> b.requests, raised |-> b.raised, resp |-> b.resp,
                  log |-> Append(b.log, LogEntry(n, key, kw, cid, C0, FALSE, b.raised,
                                                 b.resp, TRUE, b.issued,
                                                 Stores(cid, returned)))]

EndpointVerb(n, v, kw) ==
    /\ Tick
    /\ \E r \in {EndpointCall(n, v, kw)} :
          /\ cache' = r.cache
          /\ requests' = r.requests
          /\ log' = r.log
          /\ last' = VerbOp(n, v, r.raised, r.resp)
    /\ UNCHANGED <<methods, cacheOf>>
    /\ UNCHANGED treeVars
    /\ UNCHANGED netVars

\* api.<verb>(route, **kw) called by the application itself
ClientVerb(v, route, kw) ==
    /\ Tick
    /\ \E c \in {ClientCall(cache, requests, log, v, route, kw)} :
          /\ cache' = c.cache
          /\ requests' = c.requests
          /\ log' = c.log
          /\ last' = VerbOp(Api, v, c.raised, c.resp)
    /\ UNCHANGED <<methods, cacheOf>>
    /\ UNCHANGED treeVars
    /\ UNCHANGED netVars

\* node.methods = ms
SetMethods(n, ms) ==
    /\ Tick
    /\ ms # methods[n]
    /\ methods' = [methods EXCEPT ![n] = ms]
    /\ last' = Op("methods", n, None, NoName, None, "", FALSE)
    /\ UNCHANGED <<cacheOf, cache, requests, log>>
    /\ UNCHANGED treeVars
    /\ UNCHANGED netVars

\* the values given to the cache attribute of an owner: None, or the mapping
\* kept for the client or the one kept for the nodes
CacheChoices(o) == IF o = Api THEN {None, 1} ELSE {None, 2}

\* owner.cache = c
SetCache(o, c) ==
    /\ Tick
    /\ c # cacheOf[o]
    /\ cacheOf' = [cacheOf EXCEPT ![o] = c]
    /\ last' = Op("cache", o, None, NoName, None, "", FALSE)
    /\ UNCHANGED <<methods, cache, requests, log>>
    /\ UNCHANGED treeVars
    /\ UNCHANGED netVars

\* two detached nodes built with CompositeEndpoint(api, "x", cache=...), the
\* second one possibly with the empty path "", each with or without a mapping
\* (the same one when both have one), and a client built with or without a
\* mapping of its own
InitCache ==
    /\ created = {1, 2}
    /\ segment \in [Nodes -> {<<"x">>, <<>>}]
    /\ \A n \in Nodes \ {2} : segment[n] = <<"x">>
    /\ parent = [n \in Nodes |-> None]
    /\ children = [n \in Nodes |-> <<>>]
    /\ methods = [n \in Nodes |-> DEFAULT_METHODS]
    /\ cacheOf \in [Owners -> {None} \cup CacheIds]
    /\ cacheOf[Api] \in {None, 1}
    /\ \A n \in created : cacheOf[n] \in {None, 2}
    /\ \A n \in Nodes \ created : cacheOf[n] = None
    /\ cache = [c \in CacheIds |-> <<>>]
    /\ requests = 0
    /\ log = <<>>
    /\ client = DefaultClient
    /\ adapter = DefaultAdapter
    /\ state = DefaultState
    /\ pager = DefaultPager
    /\ local = DefaultLocal
    /\ transport = TransportUp
    /\ ops = 0
    /\ last = NoOp

NextCache ==
    \/ \E n \in created, v \in VerbsCalled, kw \in KwArgs : EndpointVerb(n, v, kw)
    \/ \E v \in VerbsCalled, r \in Routes : ClientVerb(v, r, <<>>)
    \/ \E n \in created, ms \in MethodChoices : SetMethods(n, ms)
    \/ \E p \in created, c \in created : ChildrenAdd(p, c)
    \/ \E o \in {Api} \cup created : \E c \in CacheChoices(o) : SetCache(o, c)

SpecCache == InitCache /\ [][NextCache]_vars

\* ------------------------------------------- verb calls while requests fail
\* nodes 1 and 2 detached, with or without the mapping kept for nodes, a
\* client with or without its own, and a transport that answers, fails or
\* times out request by request
InitOutage ==
    /\ created = {1, 2}
    /\ segment = [n \in Nodes |-> <<"x">>]
    /\ parent = [n \in Nodes |-> None]
    /\ children = [n \in Nodes |-> <<>>]
    /\ methods = [n \in Nodes |-> DEFAULT_METHODS]
    /\ cacheOf \in [Owners -> {None} \cup CacheIds]
    /\ cacheOf[Api] \in {None, 1}
    /\ \A n \in created : cacheOf[n] \in {None, 2}
    /\ \A n \in Nodes \ created : cacheOf[n] = None
    /\ cache = [c \in CacheIds |-> <<>>]
    /\ requests = 0
    /\ log = <<>>
    /\ client = DefaultClient
    /\ adapter = DefaultAdapter
    /\ state = DefaultState
    /\ pager = DefaultPager
    /\ local = DefaultLocal
    /\ transport \in [1..MaxOps -> Outcomes]
    /\ ops = 0
    /\ last = NoOp

NextOutage ==
    \/ \E n \in created : EndpointVerb(n, "GET", <<>>)
    \/ \E r \in Routes : ClientVerb("GET", r, <<>>)
    \/ \E p \in created, c \in created : ChildrenAdd(p, c)

SpecOutage == InitOutage /\ [][NextOutage]_vars

\* ------------------------------------------------------ requests of a client
\* BaseAPI.request(method, route, headers=h, params=q): the route joined to
\* the base url, the defaults merged with the arguments (later values
\* replacing earlier ones), handed to the transport under confirm_connection;
\* hfirst and qfirst are the defaults as the two merges leave them
BaseRequest(c, route, h, q, outcome) ==
    LET r == confirm_connection(outcome)
    IN  [raised |-> r.raised, returned |-> r.result, sent |-> TRUE,
         via |-> "HTTPAdapter",
         url |-> urljoin(c.url, route),
         headers |-> merge(c.headers, h, TRUE).value,
         params |-> merge(c.params, q, TRUE).value,
         hfirst |-> merge(c.headers, h, TRUE).first,
         qfirst |-> merge(c.params, q, TRUE).first]

\* SessionAPI.request: with a session, the route joined to the base url and
\* the defaults merged with the arguments without overwrite, handed to the
\* session; without one, BaseAPI.request called with the joined url as route
SessionRequest(c, route, h, q, outcome) ==
    IF c.session
    THEN LET hh == merge(c.headers, h, FALSE)
             qq == merge(c.params, q, FALSE)
             r == confirm_connection(outcome)
         IN  IF hh.raised # "" \/ qq.raised # ""
             THEN [raised |-> "ValueError", returned |-> "none", sent |-> FALSE,
                   via |-> "none",
                   url |-> urljoin(c.url, route), headers |-> {}, params |-> {},
                   hfirst |-> hh.first,
                   qfirst |-> IF hh.raised # "" THEN c.params ELSE qq.first]
             ELSE [raised |-> r.raised, returned |-> r.result, sent |-> TRUE,
                   via |-> IF c.mounted = "none" THEN "HTTPAdapter" ELSE c.mounted,
                   url |-> urljoin(c.url, route),
                   headers |-> hh.value, params |-> qq.value,
                   hfirst |-> hh.first, qfirst |-> qq.first]
    ELSE BaseRequest(c, urljoin(c.url, route), h, q, outcome)

request(c, route, h, q, outcome) ==
    IF c.kind = "SessionAPI" THEN SessionRequest(c, route, h, q, outcome)
    ELSE BaseRequest(c, route, h, q, outcome)

\* routes given to the client
ClientRoutes == {<<"b">>, <<Sep, "b">>}
\* verbs the application calls on the client
ClientVerbs == {"GET", "POST"}

\* api.<verb>(route, headers=h, params=q), the transport doing `outcome`
ClientRequest(v, route, h, q, outcome) ==
    /\ Tick
    /\ \E r \in {request(client, route, h, q, outcome)} :
          /\ last' = [verb |-> v, route |-> route, hargs |-> h, qargs |-> q,
                      hdefaults |-> client.headers, qdefaults |-> client.params,
                      outcome |-> outcome, returned |-> r.returned, sent |-> r.sent,
                      via |-> r.via,
                      url |-> r.url, headers |-> r.headers, params |-> r.params]
                     @@ Op("request", Api, None, NoName, None, r.raised, FALSE)
          /\ client' = [client EXCEPT !.headers = r.hfirst, !.params = r.qfirst]
    /\ UNCHANGED <<adapter, state, pager, local, transport>>
    /\ UNCHANGED treeVars
    /\ UNCHANGED cacheVars

\* SessionAPI.start()
Start ==
    /\ Tick
    /\ client.kind = "SessionAPI"
    /\ client' = [client EXCEPT !.session = TRUE, !.mounted = client.adapter,
                                 !.dropped = IF client.session THEN @ + 1 ELSE @]
    /\ last' = Op("start", Api, None, NoName, None, "", FALSE)
    /\ UNCHANGED <<adapter, state, pager, local, transport>>
    /\ UNCHANGED treeVars
    /\ UNCHANGED cacheVars

\* SessionAPI.close()
Close ==
    /\ Tick
    /\ client.kind = "SessionAPI"
    /\ client' = [client EXCEPT !.session = FALSE, !.mounted = "none"]
    /\ last' = Op("close", Api, None, NoName, None, "", FALSE)
    /\ UNCHANGED <<adapter, state, pager, local, transport>>
    /\ UNCHANGED treeVars
    /\ UNCHANGED cacheVars

\* (variant: the exit leaves the session open when the block raised)
ExitSkipsOnError(raised) ==
    /\ Tick
    /\ client.kind = "SessionAPI"
    /\ client.within
    /\ client' = [client EXCEPT !.session = IF raised THEN @ ELSE FALSE,
                                 !.mounted = IF raised THEN @ ELSE "none",
                                 !.within = FALSE]
    /\ last' = Op("exit", Api, None, NoName, None, IF raised THEN "Exception" ELSE "", FALSE)
    /\ UNCHANGED <<adapter, state, pager, local, transport>>
    /\ UNCHANGED treeVars
    /\ UNCHANGED cacheVars

\* with api: ... entered: __enter__ calls start()
Enter ==
    /\ Tick
    /\ client.kind = "SessionAPI"
    /\ ~client.within
    /\ client' = [client EXCEPT !.session = TRUE, !.mounted = client.adapter,
                                 !.dropped = IF client.session THEN @ + 1 ELSE @,
                                 !.within = TRUE]
    /\ last' = Op("enter", Api, None, NoName, None, "", FALSE)
    /\ UNCHANGED <<adapter, state, pager, local, transport>>
    /\ UNCHANGED treeVars
    /\ UNCHANGED cacheVars

\* the with-block left, normally or by an exception of the block: __exit__
\* calls close() and returns None, so the exception goes on to the caller
Exit(raised) ==
    /\ Tick
    /\ client.kind = "SessionAPI"
    /\ client.within
    /\ client' = [client EXCEPT !.session = FALSE, !.mounted = "none",
                                 !.within = FALSE]
    /\ last' = Op("exit", Api, None, NoName, None, IF raised THEN "Exception" ELSE "", FALSE)
    /\ UNCHANGED <<adapter, state, pager, local, transport>>
    /\ UNCHANGED treeVars
    /\ UNCHANGED cacheVars

\* a client of either class with any of the urls, default headers and params
InitClient ==
    /\ created = {1}
    /\ segment = [n \in Nodes |-> <<"x">>]
    /\ parent = [n \in Nodes |-> None]
    /\ children = [n \in Nodes |-> <<>>]
    /\ methods = [n \in Nodes |-> DEFAULT_METHODS]
    /\ cacheOf = [o \in Owners |-> None]
    /\ cache = [c \in CacheIds |-> <<>>]
    /\ requests = 0
    /\ log = <<>>
    /\ client \in {Client(k, u, h, q) : k \in {"BaseAPI", "SessionAPI"},
                                       u \in UrlArgs, h \in DefaultHeaders,
                                       q \in DefaultParams}
    /\ adapter = DefaultAdapter
    /\ state = DefaultState
    /\ pager = DefaultPager
    /\ local = DefaultLocal
    /\ transport = TransportUp
    /\ ops = 0
    /\ last = NoOp

NextClient ==
    \/ \E v \in ClientVerbs, r \in ClientRoutes, h \in HeaderArgs, q \in ParamArgs,
          o \in Outcomes : ClientRequest(v, r, h, q, o)
    \/ Start
    \/ Close
    \/ Enter
    \/ \E raised \in BOOLEAN : Exit(raised)

SpecClient == InitClient /\ [][NextClient]_vars

\* ------------------------------------------ verb calls with local values
\* the values a node is built with
LocalHeaders == {{}, {[k |-> "A", v |-> StrVal("3")]}}
LocalParams == {{}, {[k |-> "A", v |-> ListVal(<<"3">>)]}}
\* what the transport does in these runs
EndpointOutcomes == {"response", "Timeout"}

\* node.<verb>(headers=h, params=q) on node 1, which allows every verb and
\* has no cache, of a client without a cache: the node's values merged with
\* the call's, overwrite set, and handed with the node's path to the verb of
\* the client, which hands them to request
EndpointRequest(v, h, q, outcome) ==
    /\ Tick
    /\ LET nh == merge(local.headers, h, TRUE)
           nq == merge(local.params, q, TRUE)
       IN  \E r \in {request(client, path(1), nh.value, nq.value, outcome)} :
              /\ last' = [verb |-> v, route |-> path(1), hargs |-> h, qargs |-> q,
                          hlocal |-> local.headers, qlocal |-> local.params,
                          hdefaults |-> client.headers, qdefaults |-> client.params,
                          outcome |-> outcome, returned |-> r.returned, sent |-> r.sent,
                      via |-> r.via,
                          url |-> r.url, headers |-> r.headers, params |-> r.params]
                         @@ Op("verb", 1, None, NoName, None, r.raised, FALSE)
              /\ client' = [client EXCEPT !.headers = r.hfirst, !.params = r.qfirst]
              /\ local' = Local(nh.first, nq.first)
    /\ UNCHANGED <<adapter, state, pager, transport>>
    /\ UNCHANGED treeVars
    /\ UNCHANGED cacheVars

InitEndpoint ==
    /\ created = {1}
    /\ segment = [n \in Nodes |-> <<"x">>]
    /\ parent = [n \in Nodes |-> None]
    /\ children = [n \in Nodes |-> <<>>]
    /\ methods = [n \in Nodes |-> DEFAULT_METHODS]
    /\ cacheOf = [o \in Owners |-> None]
    /\ cache = [c \in CacheIds |-> <<>>]
    /\ requests = 0
    /\ log = <<>>
    /\ client \in {Client(k, <<"a", Sep>>, h, q) : k \in {"BaseAPI", "SessionAPI"},
                                                  h \in DefaultHeaders,
                                                  q \in DefaultParams}
    /\ adapter = DefaultAdapter
    /\ state = DefaultState
    /\ pager = DefaultPager
    /\ local \in {Local(h, q) : h \in LocalHeaders, q \in LocalParams}
    /\ transport = TransportUp
    /\ ops = 0
    /\ last = NoOp

NextEndpoint ==
    \/ \E v \in ClientVerbs, h \in HeaderArgs, q \in ParamArgs, o \in EndpointOutcomes :
          EndpointRequest(v, h, q, o)
    \/ Start
    \/ Close

SpecEndpoint == InitEndpoint /\ [][NextEndpoint]_vars

\* ------------------------------------------- requests and the adapter
\* the adapter a SessionAPI is built with
AdapterArgs == {"none", "TransportAdapter"}

InitTransport ==
    /\ created = {1}
    /\ segment = [n \in Nodes |-> <<"x">>]
    /\ parent = [n \in Nodes |-> None]
    /\ children = [n \in Nodes |-> <<>>]
    /\ methods = [n \in Nodes |-> DEFAULT_METHODS]
    /\ cacheOf = [o \in Owners |-> None]
    /\ cache = [c \in CacheIds |-> <<>>]
    /\ requests = 0
    /\ log = <<>>
    /\ client \in {Client("BaseAPI", <<Origin, Sep, "a">>, {}, {})}
                  \cup {WithAdapter(Client("SessionAPI", <<Origin, Sep, "a">>, {}, {}), a) :
                           a \in AdapterArgs}
    /\ adapter = DefaultAdapter
    /\ state = DefaultState
    /\ pager = DefaultPager
    /\ local = DefaultLocal
    /\ transport = TransportUp
    /\ ops = 0
    /\ last = NoOp

NextTransport ==
    \/ \E v \in ClientVerbs, r \in ClientRoutes, h \in HeaderArgs, o \in Outcomes :
          ClientRequest(v, r, h, {}, o)
    \/ Start
    \/ Close

SpecTransport == InitTransport /\ [][NextTransport]_vars

\* ------------------------------------------------------- sends of an adapter
\* the timeout keyword of a send: not given, None (what requests.Session
\* passes when its caller gave none), or a value
TimeoutKws == {Absent, None, 3}

\* kwargs.setdefault("timeout", self.timeout): the default fills in only a
\* key that is absent
setdefault(kw, default) == IF kw = Absent THEN default ELSE kw

\* the statuses the transport answers with
OK == 200
Answers == {OK, 404} \cup RetryStatuses

\* Retry.is_retry(method, status): the method is allowed and the status is
\* one that forces a retry
is_retry(policy, method, status) ==
    method \in policy.allowed_methods /\ status \in policy.status_forcelist

\* TransportAdapter.send(request, timeout=kw): the timeout is settled and the
\* request handed to HTTPAdapter.send with the adapter's retry policy
AdapterSend(method, kw) ==
    /\ adapter.phase # "sending"
    /\ adapter' = [adapter EXCEPT !.phase = "sending", !.method = method, !.kw = kw,
                                  !.sent = setdefault(kw, adapter.timeout),
                                  !.left = adapter.max_retries.total,
                                  !.attempts = 0, !.failures = 0, !.status = 0,
                                  !.result = "none"]
    /\ UNCHANGED <<client, state, pager, local, transport, ops, last>>
    /\ UNCHANGED treeVars
    /\ UNCHANGED cacheVars

\* one attempt of the send in progress, the transport answering `status`: a
\* status that is_retry accepts uses up one retry, and the send fails with
\* RetryError when none is left; any other answer is returned
AdapterAttempt(status) ==
    /\ adapter.phase = "sending"
    /\ IF is_retry(adapter.max_retries, adapter.method, status)
       THEN adapter' = [adapter EXCEPT !.attempts = @ + 1, !.status = status,
                                       !.failures = @ + 1, !.left = @ - 1,
                                       !.phase = IF adapter.left - 1 < 0
                                                 THEN "done" ELSE "sending",
                                       !.result = IF adapter.left - 1 < 0
                                                  THEN "RetryError" ELSE "none"]
       ELSE adapter' = [adapter EXCEPT !.attempts = @ + 1, !.status = status,
                                       !.phase = "done",
                                       !.result = IF status = OK THEN "success"
                                                  ELSE "failure"]
    /\ UNCHANGED <<client, state, pager, local, transport, ops, last>>
    /\ UNCHANGED treeVars
    /\ UNCHANGED cacheVars

\* an adapter built with or without a timeout and a max_retries argument
InitAdapter ==
    /\ created = {1}
    /\ segment = [n \in Nodes |-> <<"x">>]
    /\ parent = [n \in Nodes |-> None]
    /\ children = [n \in Nodes |-> <<>>]
    /\ methods = [n \in Nodes |-> DEFAULT_METHODS]
    /\ cacheOf = [o \in Owners |-> None]
    /\ cache = [c \in CacheIds |-> <<>>]
    /\ requests = 0
    /\ log = <<>>
    /\ client = DefaultClient
    /\ adapter \in {TransportAdapter(t, m) : t \in TimeoutArgs, m \in MaxRetriesArgs}
    /\ state = DefaultState
    /\ pager = DefaultPager
    /\ local = DefaultLocal
    /\ transport = TransportUp
    /\ ops = 0
    /\ last = NoOp

NextAdapter ==
    \/ \E m \in HTTPMethod, kw \in TimeoutKws : AdapterSend(m, kw)
    \/ \E a \in Answers : AdapterAttempt(a)

SpecAdapter == InitAdapter /\ [][NextAdapter]_vars

\* ------------------------------------------------------- the local state
\* the string values a test writes
StateValues == {"1", "2"}
\* the keys handed to update, and the keys handed to item assignment
UpdateKeys == {"s", "a"}
ItemKeys == {"s", "a.b"}

\* ChainMap.__getitem__: the entry of the first layer that has the key "a"
RECURSIVE Lookup(_, _)
Lookup(maps, i) ==
    IF i > Len(maps) THEN ""
    ELSE IF maps[i].a # "" THEN maps[i].a
    ELSE Lookup(maps, i + 1)

\* the dict objects that some layer holds
Held(maps) == {i \in ObjIds : \E k \in 1..Len(maps) : maps[k].a = Ref(i)}

\* deep_set(__m, keys, value) on the ChainMap st.maps; the result names the
\* exception raised, the layers and the dict objects afterwards
deep_set(st, key, v) ==
    IF key = "s"
    THEN [raised |-> "", maps |-> [st.maps EXCEPT ![1].s = v], heap |-> st.heap]
    ELSE LET found == Lookup(st.maps, 1)
         IN  IF found = ""
             THEN \* setdefault stores a new dict in maps[0]
                  LET new == CHOOSE i \in ObjIds : i \notin Held(st.maps)
                  IN  [raised |-> "",
                       maps |-> [st.maps EXCEPT ![1].a = Ref(new)],
                       heap |-> [st.heap EXCEPT ![new] = [b |-> v]]]
             ELSE IF ~IsRef(found)
             THEN [raised |-> "TypeError", maps |-> st.maps, heap |-> st.heap]
             ELSE \* the dict that was found is changed where it is, and
                  \* maps[0] is made to hold it as well
                  [raised |-> "",
                   maps |-> [st.maps EXCEPT ![1].a = found],
                   heap |-> [st.heap EXCEPT ![Id(found)].b = v]]

StateOp(op, key, v, raised) ==
    [key |-> key, value |-> v] @@ Op(op, None, None, NoName, None, raised, FALSE)

\* state.update({k: v})
StateUpdate(k, v) ==
    /\ Tick
    /\ state' = [state EXCEPT !.maps[1] =
                    IF k = "s" THEN [@ EXCEPT !.s = v] ELSE [@ EXCEPT !.a = v]]
    /\ last' = StateOp("update", k, v, "")
    /\ UNCHANGED <<client, adapter, pager, local, transport>>
    /\ UNCHANGED treeVars
    /\ UNCHANGED cacheVars

\* state[key] = v
StateSetItem(key, v) ==
    /\ Tick
    /\ IF state.kind = "BaseState"
       THEN /\ state' = [state EXCEPT !.maps[1] =
                           IF key = "s" THEN [@ EXCEPT !.s = v]
                           ELSE [@ EXCEPT !.dotted = v]]
            /\ last' = StateOp("setitem", key, v, "")
       ELSE /\ key = "a.b" /\ Lookup(state.maps, 1) = "" => Held(state.maps) # ObjIds
            /\ \E r \in {deep_set(state, key, v)} :
                /\ state' = [state EXCEPT !.maps = r.maps, !.heap = r.heap]
                /\ last' = StateOp("setitem", key, v, r.raised)
    /\ UNCHANGED <<client, adapter, pager, local, transport>>
    /\ UNCHANGED treeVars
    /\ UNCHANGED cacheVars

\* state.save() with a new layer whether or not maps[0] holds anything
StateSaveAlways ==
    /\ Tick
    /\ state' = [state EXCEPT !.maps = <<NoLayer>> \o @,
                               !.saved = Visible(state.maps, state.heap)]
    /\ last' = StateOp("save", "", "", "")
    /\ UNCHANGED <<client, adapter, pager, local, transport>>
    /\ UNCHANGED treeVars
    /\ UNCHANGED cacheVars

\* state.save()
StateSave ==
    /\ Tick
    /\ state' = IF state.maps[1] # NoLayer
                THEN [state EXCEPT !.maps = <<NoLayer>> \o @,
                                   !.saved = Visible(state.maps, state.heap)]
                ELSE [state EXCEPT !.saved = Visible(state.maps, state.heap)]
    /\ last' = StateOp("save", "", "", "")
    /\ UNCHANGED <<client, adapter, pager, local, transport>>
    /\ UNCHANGED treeVars
    /\ UNCHANGED cacheVars

\* state.rollback()
StateRollback ==
    /\ Tick
    /\ state' = [state EXCEPT !.maps[1] = NoLayer]
    /\ last' = StateOp("rollback", "", "", "")
    /\ UNCHANGED <<client, adapter, pager, local, transport>>
    /\ UNCHANGED treeVars
    /\ UNCHANGED cacheVars

\* the mappings a state is built from: nothing, a string, or (as default) a
\* nested dict {"a": {"b": "1"}}
BaseArgs == {NoLayer, [NoLayer EXCEPT !.s = "1"]}
DefaultArgs == {NoLayer, [NoLayer EXCEPT !.s = "1"], [NoLayer EXCEPT !.a = Ref(1)]}
StateKinds == {"BaseState", "_State"}

InitState ==
    /\ created = {1}
    /\ segment = [n \in Nodes |-> <<"x">>]
    /\ parent = [n \in Nodes |-> None]
    /\ children = [n \in Nodes |-> <<>>]
    /\ methods = [n \in Nodes |-> DEFAULT_METHODS]
    /\ cacheOf = [o \in Owners |-> None]
    /\ cache = [c \in CacheIds |-> <<>>]
    /\ requests = 0
    /\ log = <<>>
    /\ client = DefaultClient
    /\ adapter = DefaultAdapter
    /\ state \in {State(kind, base, default,
                        [i \in ObjIds |-> IF default.a = Ref(i) THEN [b |-> "1"] ELSE NoDict]) :
                    kind \in StateKinds, base \in BaseArgs, default \in DefaultArgs}
    /\ pager = DefaultPager
    /\ local = DefaultLocal
    /\ transport = TransportUp
    /\ ops = 0
    /\ last = NoOp

NextState ==
    \/ \E k \in UpdateKeys, v \in StateValues : StateUpdate(k, v)
    \/ \E k \in ItemKeys, v \in StateValues : StateSetItem(k, v)
    \/ StateSave
    \/ StateRollback

SpecState == InitState /\ [][NextState]_vars

\* ----------------------------------------------------------- the pager
\* the responses the wrapped request returns, and the params a caller hands in
Responses == {[results |-> r, total |-> t] : r \in {0, 1}, t \in {1, 2}}
PagerParams == {None, 7}

\* the reducer and the callback of the tests: results are summed, the total
\* is taken from the response; done when the sum has reached the total
reducer(st, res) ==
    [st EXCEPT !.results = IF st.results # None /\ st.results # 0
                           THEN st.results + res.results ELSE res.results,
               !.total = res.total]
callback(st, res) == st.results >= res.total

\* if state.get("params"): kwargs.update({"params": state.get("params")});
\* response = func(*args, **kwargs); yield response
CallAndYield(g, res) ==
    LET kw == IF g.state.params # None /\ g.state.params # 0
              THEN [g.kwargs EXCEPT !.params = g.state.params] ELSE g.kwargs
    IN  [g EXCEPT !.kwargs = kw, !.response = res, !.pos = "suspended",
                  !.calls = @ + 1, !.yielded = @ + 1, !.sent = Append(@, kw.params)]

PagerOp(op, item, raised) ==
    [item |-> item] @@ Op(op, None, None, NoName, None, raised, FALSE)

\* (variant: the callback is asked before the response is yielded, and a
\*  response that completes the request is not yielded)
PagerNextSkipsLast(res) ==
    /\ Tick
    /\ IF pager.pos = "done"
       THEN /\ pager' = pager
            /\ last' = PagerOp("next", None, "StopIteration")
       ELSE LET st == reducer(pager.state, res)
            IN  IF callback(st, res)
                THEN /\ pager' = [pager EXCEPT !.state = st, !.response = res,
                                               !.calls = @ + 1, !.completed = TRUE,
                                               !.pos = "done"]
                     /\ last' = PagerOp("next", None, "StopIteration")
                ELSE /\ pager' = [CallAndYield(pager, res) EXCEPT !.state = st]
                     /\ last' = PagerOp("next", res, "")
    /\ UNCHANGED <<client, adapter, state, local, transport>>
    /\ UNCHANGED treeVars
    /\ UNCHANGED cacheVars

\* next(generator): run the body up to the next yield or to its end; res is
\* what the wrapped request returns if it is called
PagerNext(res) ==
    /\ Tick
    /\ IF pager.pos = "done"
       THEN /\ pager' = pager
            /\ last' = PagerOp("next", None, "StopIteration")
       ELSE IF pager.pos = "new"
       THEN /\ pager' = CallAndYield(pager, res)
            /\ last' = PagerOp("next", res, "")
       ELSE LET st == reducer(pager.state, pager.response)
                completed == callback(st, pager.response)
                g == [pager EXCEPT !.state = st, !.completed = completed]
            IN  IF completed
                THEN /\ pager' = [g EXCEPT !.pos = "done"]
                     /\ last' = PagerOp("next", None, "StopIteration")
                ELSE /\ pager' = CallAndYield(g, res)
                     /\ last' = PagerOp("next", res, "")
    /\ UNCHANGED <<client, adapter, state, local, transport>>
    /\ UNCHANGED treeVars
    /\ UNCHANGED cacheVars

\* generator.close(): the body is left at the yield it stands at
PagerClose ==
    /\ Tick
    /\ pager' = [pager EXCEPT !.pos = "done"]
    /\ last' = PagerOp("close", None, "")
    /\ UNCHANGED <<client, adapter, state, local, transport>>
    /\ UNCHANGED treeVars
    /\ UNCHANGED cacheVars

InitPager ==
    /\ created = {1}
    /\ segment = [n \in Nodes |-> <<"x">>]
    /\ parent = [n \in Nodes |-> None]
    /\ children = [n \in Nodes |-> <<>>]
    /\ methods = [n \in Nodes |-> DEFAULT_METHODS]
    /\ cacheOf = [o \in Owners |-> None]
    /\ cache = [c \in CacheIds |-> <<>>]
    /\ requests = 0
    /\ log = <<>>
    /\ client = DefaultClient
    /\ adapter = DefaultAdapter
    /\ state = DefaultState
    /\ pager \in {Generator(q) : q \in PagerParams}
    /\ local = DefaultLocal
    /\ transport = TransportUp
    /\ ops = 0
    /\ last = NoOp

NextPager ==
    \/ \E res \in Responses : PagerNext(res)
    \/ PagerClose

SpecPager == InitPager /\ [][NextPager]_vars

\* ================================================================ claims
\* the ancestors of n, most distant first, n last; <<>> when the parent
\* chain of n never ends
RECURSIVE ChainOf(_, _, _)
ChainOf(par, n, fuel) ==
    IF par[n] = None THEN <<n>>
    ELSE IF fuel = 0 THEN <<>>
    ELSE LET c == ChainOf(par, par[n], fuel - 1)
         IN  IF c = <<>> THEN <<>> ELSE Append(c, n)

RECURSIVE JoinFrom(_, _)
JoinFrom(ch, i) ==
    segment[ch[i]] \o (IF i = Len(ch) THEN <<>> ELSE <<Sep>> \o JoinFrom(ch, i + 1))

\* C1: in every reachable state, the path of every node with a finite
\* ancestor chain is the segments of that chain joined by "/", most distant
\* ancestor first and its own segment last; a parentless node's path is its
\* own segment.
C1_PathIsJoinOfChain ==
    \A n \in created :
        LET ch == ChainOf(parent, n, MaxNodes)
        IN  ch # <<>> =>
                /\ path(n) = JoinFrom(ch, 1)
                /\ (parent[n] = None => path(n) = segment[n])

C1_Witness ==
    \E n \in created :
        /\ Len(ChainOf(parent, n, MaxNodes)) = 3
        /\ path(n) = JoinFrom(ChainOf(parent, n, MaxNodes), 1)

\* C2: a successful children.add(c) on p leaves c with parent p and path
\* path(p) + "/" + segment(c); every node that was beneath c keeps its
\* relative position, its path being the new path of c followed by what
\* followed the old path of c; no node is created and no segment changes.
C2_AddRepaths ==
    [][(last'.op = "add" /\ last'.raised = "") =>
        LET p == last'.ctx
            c == last'.arg
            newc == PathOf(parent', segment', c, MaxNodes)
        IN  /\ parent'[c] = p
            /\ created' = created
            /\ segment' = segment
            /\ newc = PathOf(parent', segment', p, MaxNodes) \o <<Sep>> \o segment[c]
            /\ \A d \in created :
                  LET ch == ChainOf(parent, d, MaxNodes)
                  IN  (d # c /\ \E i \in 1..Len(ch) : ch[i] = c) =>
                        PathOf(parent', segment', d, MaxNodes) =
                            newc \o SubSeq(path(d), Len(path(c)) + 1, Len(path(d)))
      ]_vars

C2_Witness ==
    /\ last.op = "add"
    /\ last.raised = ""
    /\ last.was # last.ctx
    /\ parent[last.arg] = last.ctx
    /\ \E d \in created : d # last.arg /\ parent[d] = last.arg
                          /\ path(d) = path(last.ctx) \o <<Sep>> \o segment[last.arg]
                                          \o <<Sep>> \o segment[d]

\* C3: navigating the same key twice in a row from the same node returns
\* the same child both times and the second navigation does not grow the
\* node's child set.
C3_NavigateTwiceSameChild ==
    [][(/\ last.op = "nav" /\ last.raised = ""
        /\ last'.op = "nav" /\ last'.ctx = last.ctx /\ last'.name = last.name) =>
            /\ last'.result = last.result
            /\ Len(children'[last.ctx]) = Len(children[last.ctx])
      ]_vars

\* ------------------------------------------------------ claims on caching
Calls == 1..Len(log)
Ok(i) == log[i].raised = ""
UsesCache(i) == log[i].cid # None

\* same verb, same owner, same positional arguments, same keyword pairs
SameCall(i, j) ==
    /\ log[i].owner = log[j].owner
    /\ log[i].verb = log[j].verb
    /\ Len(log[i].rest) - Len(log[i].kw) = Len(log[j].rest) - Len(log[j].kw)
    /\ SubSeq(log[i].rest, 1, Len(log[i].rest) - Len(log[i].kw))
         = SubSeq(log[j].rest, 1, Len(log[j].rest) - Len(log[j].kw))
    /\ {log[i].kw[k] : k \in 1..Len(log[i].kw)} = {log[j].kw[k] : k \in 1..Len(log[j].kw)}

\* every entry a call stored is still in its mapping, with the response of
\* that call, and the mappings hold nothing else
EntriesKept ==
    /\ \A i \in Calls : log[i].stored =>
          \E k \in 1..Len(cache[log[i].cid]) :
              LET e == cache[log[i].cid][k]
              IN  /\ e.v = log[i].resp
                  /\ e.k.owner = log[i].owner
                  /\ e.k.verb = log[i].verb
                  /\ e.k.rest = log[i].rest
                  /\ e.h.oh = log[i].path
    /\ \A c \in CacheIds :
          Len(cache[c]) = Cardinality({i \in Calls : log[i].stored /\ log[i].cid = c})

\* the statement of C4 as written: with a cache mapping, of the successful
\* calls with one (verb, owner, positional, keyword) signature only the first
\* issues the underlying request, the later ones return the response of the
\* first, and stored entries are kept.
C4_OncePerSignature ==
    /\ EntriesKept
    /\ \A i, j \in Calls :
          (/\ i < j /\ SameCall(i, j)
           /\ UsesCache(i) /\ log[i].cid = log[j].cid
           /\ Ok(i) /\ Ok(j)
           /\ \A k \in 1..(i - 1) : ~(SameCall(k, i) /\ Ok(k) /\ log[k].cid = log[i].cid))
          => /\ ~log[j].issued
             /\ log[j].resp = log[i].resp

\* C4 (amended): for calls on an owner whose mapping holds only entries
\* stored for that owner, of the successful calls with one (verb, owner,
\* effective path of the owner at the call, positional, keyword) signature
\* only the first issues the underlying request, the later ones return the
\* response of the first, and stored entries are never evicted or
\* overwritten.
C4_OncePerSignatureAndPath ==
    /\ EntriesKept
    /\ \A i, j \in Calls :
          (/\ i < j /\ SameCall(i, j) /\ log[i].path = log[j].path
           /\ UsesCache(i) /\ log[i].cid = log[j].cid /\ log[j].private
           /\ Ok(i) /\ Ok(j)
           /\ \A k \in 1..(i - 1) : ~(/\ SameCall(k, i) /\ log[k].path = log[i].path
                                      /\ Ok(k) /\ log[k].cid = log[i].cid))
          => /\ ~log[j].issued
             /\ log[j].hit
             /\ log[j].resp = log[i].resp

C4_Witness ==
    \E i, j \in Calls :
        /\ i < j /\ SameCall(i, j) /\ log[i].path = log[j].path
        /\ log[i].owner # Api
        /\ UsesCache(i) /\ log[i].cid = log[j].cid /\ log[j].private
        /\ log[i].stored /\ log[i].issued
        /\ log[j].hit /\ log[j].resp = log[i].resp

\* C5: two calls with the same verb, owner and positional arguments and the
\* same keyword pairs written in a different order get the same cache key;
\* made one right after the other with a cache mapping, the second issues no
\* underlying request and returns the response of the first, which issued one
\* unless it was itself answered from the mapping.
C5_KeywordOrderIrrelevant ==
    \A i, j \in Calls :
        (i < j /\ SameCall(i, j) /\ log[i].kw # log[j].kw) =>
            /\ log[i].rest = log[j].rest
            /\ (/\ log[j].t = log[i].t + 1
                /\ UsesCache(i) /\ log[i].cid = log[j].cid
                /\ Ok(i) /\ Ok(j))
               => /\ ~log[j].issued
                  /\ log[j].resp = log[i].resp
                  /\ (~log[i].hit => log[i].issued)

C5_Witness ==
    \E i, j \in Calls :
        /\ i < j /\ SameCall(i, j) /\ log[i].kw # log[j].kw
        /\ log[j].t = log[i].t + 1
        /\ UsesCache(i) /\ log[i].cid = log[j].cid
        /\ log[i].issued /\ log[i].stored
        /\ log[j].hit /\ ~log[j].issued /\ log[j].resp = log[i].resp

\* C6: a call on an owner whose cache is None always enters the method, is
\* never answered from a mapping and stores nothing; when the method does
\* not raise, the underlying request is issued, also for a repeated call.
C6_NoCachePassthrough ==
    /\ \A c \in CacheIds :
          Len(cache[c]) = Cardinality({i \in Calls : log[i].stored /\ log[i].cid = c})
    /\ \A i \in Calls :
          log[i].cid = None =>
              /\ log[i].entered
              /\ ~log[i].hit
              /\ ~log[i].stored
              /\ (Ok(i) => log[i].issued)

C6_Witness ==
    \E i, j \in Calls :
        /\ i < j /\ SameCall(i, j) /\ log[i].kw = log[j].kw
        /\ log[i].owner # Api
        /\ log[i].cid = None /\ log[j].cid = None
        /\ log[i].issued /\ log[j].issued
        /\ Cardinality({k \in Calls : log[k].owner = Api}) >= 2

\* C7: a verb called on a node (with a computable path) while the verb is not
\* in the node's allowed-method set raises NotImplementedError, does not
\* invoke the client's verb and stores nothing.
C7_DisallowedVerbRaises ==
    \A i \in Calls :
        (/\ log[i].owner # Api
         /\ ~log[i].allowed
         /\ log[i].path # RecursionError)
        => /\ log[i].raised = "NotImplementedError"
           /\ ~log[i].issued
           /\ ~log[i].stored

\* the parent relation has no cycle
TreeShaped == \A n \in created : ChainOf(parent, n, MaxNodes) # <<>>

\* C8: in a tree, after remove, discard or pop of a child that is in the
\* parent's child set, the child has no parent, its path is its own segment
\* and it is no longer in the set.
C8_RemovalDetaches ==
    (TreeShaped /\ last.op \in {"remove", "discard", "pop"} /\ last.present) =>
        /\ parent[last.arg] = None
        /\ path(last.arg) = segment[last.arg]
        /\ last.arg \notin Elements(children[last.ctx])

\* C9: in a tree, no two members of one node's child set have the same
\* segment.
C9_UniqueSegments ==
    TreeShaped => \A p \in created :
        \A i, j \in 1..Len(children[p]) :
            i # j => segment[children[p][i].e] # segment[children[p][j].e]

\* C10: in a tree, each node is held in the child set of at most one node,
\* and that node is the one its parent reference names.
C10_SingleParent ==
    TreeShaped => \A c \in created :
        /\ Cardinality({p \in created : c \in Elements(children[p])}) <= 1
        /\ \A p \in created : c \in Elements(children[p]) => parent[c] = p

\* ------------------------------------------------- equality and hashing
\* (variant: only the nodes' own segments are compared)
eqOwnSegment(a, b) == segment[b] = segment[a]

\* CompositeEndpoint.__eq__ between two composite nodes: other.path == self.path
eq(a, b) == path(b) = path(a)

\* the effective path of a node of a tree: its chain's segments joined by "/"
EffectivePath(n) == JoinFrom(ChainOf(parent, n, MaxNodes), 1)

\* C11: in a tree, two nodes compare equal exactly when their effective
\* paths are equal, and nodes that compare equal have equal hashes, in every
\* reachable state (so also after a node or an ancestor was reparented).
C11_EqualIffSamePath ==
    TreeShaped =>
        \A a, b \in created :
            /\ eq(a, b) <=> EffectivePath(a) = EffectivePath(b)
            /\ eq(a, b) => OwnerHash(a) = OwnerHash(b)

C11_Witness ==
    /\ TreeShaped
    /\ last.op = "add" /\ last.raised = "" /\ last.was # None /\ last.was # last.ctx
    /\ \E a, b \in created :
          /\ a # b /\ eq(a, b)
          /\ (a = last.arg \/ parent[a] = last.arg)
    /\ \E a, b \in created : segment[a] = segment[b] /\ ~eq(a, b)

\* C12: in a tree, a node held in P's child set whose parent is P is found
\* by the membership test on that set, as is every node with the same
\* effective path, and remove of such a child does not raise; in every
\* reachable state, so also after P or an ancestor of P was attached to or
\* detached from another node.
C12_MembersStayFound ==
    TreeShaped =>
        /\ \A p, c \in created :
              (c \in Elements(children[p]) /\ parent[c] = p) =>
                  /\ Contains(p, c)
                  /\ \A d \in created : eq(d, c) => Contains(p, d)
        /\ (last.op = "remove" /\ last.present /\ last.was = last.ctx)
              => last.raised = ""

\* C13: in a tree, a navigation from node P by a string or integer key
\* whose segment no member of P's child set has does not raise and returns
\* a node that did not exist before, whose segment is the requested one,
\* whose parent is P and which is a member of P's child set, the set having
\* grown by exactly one and in no other way.
C13_NavigateCreatesChild ==
    [][(/\ last'.op = "nav"
        /\ TreeShaped
        /\ \A c \in Elements(children[last'.ctx]) : segment[c] # strip(last'.name))
       => LET p == last'.ctx
              k == last'.result
          IN  /\ last'.raised = ""
              /\ k \notin created
              /\ created' = created \cup {k}
              /\ segment'[k] = strip(last'.name)
              /\ parent'[k] = p
              /\ Len(children'[p]) = Len(children[p]) + 1
              /\ \E i \in 1..Len(children'[p]) :
                    /\ children'[p][i].e = k
                    /\ RemoveAt(children'[p], i) = children[p]
              /\ Matches(children'[p], k, PathOf(parent', segment', k, MaxNodes),
                         parent', segment') # {}
      ]_vars

\* what "get or create the child called name" does from the current state:
\* the member of P with that name when children.get finds one, the tree
\* being left alone; else a new node, made with P as parent and handed to
\* P's child set
GetOrCreate(p, name, k) ==
    IF get(p, name) # None
    THEN k = get(p, name) /\ UNCHANGED treeVars
    ELSE /\ k \notin created
         /\ created' = created \cup {k}
         /\ segment' = [segment EXCEPT ![k] = strip(name)]
         /\ parent' = [parent EXCEPT ![k] = p]
         /\ \E o \in AddOutcomes(children[p], k, parent', segment') :
               o.raised = "" /\ children' = [children EXCEPT ![p] = o.S, ![k] = <<>>]

\* the statement of C14 as written: from a tree, every spelling of the
\* access (attribute, item, + and /, with a string or an integer key) and
\* every name resolves to the get-or-create child in the get-or-create tree.
C14_SpellingsEquivalent ==
    [][(last'.op \in {"nav", "getattr"} /\ TreeShaped)
        => /\ last'.raised = ""
           /\ GetOrCreate(last'.ctx, last'.name, last'.result)
      ]_vars

\* C14 (amended): from a tree, item access, + and / with every string or
\* integer key, and attribute access with every name that is not the name of
\* an attribute the node already has, resolve to the get-or-create child in
\* the get-or-create tree (an integer key as its string form).
C14_SpellingsEquivalentUnlessAttribute ==
    [][(/\ last'.op \in {"nav", "getattr"}
        /\ TreeShaped
        /\ ~(last'.op = "getattr" /\ last'.name \in Attributes))
        => /\ last'.raised = ""
           /\ GetOrCreate(last'.ctx, last'.name, last'.result)
      ]_vars

C14_Witness ==
    /\ TreeShaped
    /\ last.op = "getattr" /\ last.raised = ""
    /\ last.name = <<"x">>
    /\ last.result \in created
    /\ parent[last.result] = last.ctx
    /\ Contains(last.ctx, last.result)
    /\ \E c \in created : c # last.result /\ parent[c] = last.ctx /\ segment[c] = str(1)

Overlay(a, b) == b \cup {x \in a : x.k \notin Keys(b)}

\* C16: every request of every client is sent, with headers and params that
\* are the client's defaults overlaid with the values of the call, the value
\* of the call winning for a key of both
C16_CallValuesWin ==
    last.op = "request"
        => /\ last.sent
           /\ last.headers = Overlay(last.hdefaults, last.hargs)
           /\ last.params = Overlay(last.qdefaults, last.qargs)

\* a is the beginning of b
IsPrefix(a, b) == Len(a) <= Len(b) /\ SubSeq(b, 1, Len(a)) = a

\* C17: the url a request is sent to begins with the base url of the client,
\* and for the base "a/" the routes "b" and "/b" both resolve to "a/b"
C17_RouteStaysUnderBase ==
    (last.op = "request" /\ last.sent)
        => /\ IsPrefix(client.url, last.url)
           /\ (client.url = <<"a", Sep>> /\ last.route \in {<<"b">>, <<Sep, "b">>})
                 => last.url = <<"a", Sep, "b">>

\* the calls the client received during the operation performed last
ClientCallsOfLast == {i \in 1..Len(log) : log[i].t = ops /\ log[i].owner = Api}

\* C18: a verb called on a node of a tree that allows it, with no entry for
\* the call in the node's cache nor in the client's, calls the same verb of
\* the client exactly once with the node's effective path as route, and
\* exactly one request goes out, to the base url followed by that path
C18_VerbReachesClientOnce ==
    (/\ last.op = "verb" /\ last.ctx # Api
     /\ TreeShaped
     /\ last.verb \in methods[last.ctx]
     /\ ~log[Len(log)].hit
     /\ \A i \in ClientCallsOfLast : ~log[i].hit)
        => /\ Cardinality(ClientCallsOfLast) = 1
           /\ \A i \in ClientCallsOfLast :
                 /\ log[i].verb = last.verb
                 /\ log[i].rest[1] = Str(EffectivePath(last.ctx))
                 /\ log[i].issued
                 /\ log[i].url = client.url \o EffectivePath(last.ctx)

\* the claim of C19 for a retry limit of `total`: the adapter makes no more
\* than total + 1 attempts, does not end a send on a retryable status while
\* no more than `total` of them were answered, and returns the success
\* response, after one attempt more than the failures answered
RetriesUpTo(total) ==
    adapter.method \in RetryMethods
        => /\ adapter.attempts <= total + 1
           /\ (adapter.phase = "done" /\ adapter.status \in RetryStatuses)
                 => (adapter.failures > total /\ adapter.result = "RetryError")
           /\ (adapter.phase = "done" /\ adapter.status = OK)
                 => (adapter.result = "success"
                     /\ adapter.attempts = adapter.failures + 1)

C20_AlwaysTimeout ==
    adapter.attempts > 0
        => /\ adapter.sent # None
           /\ adapter.sent = IF adapter.kw \in {Absent, None} THEN adapter.timeout
                             ELSE adapter.kw

\* C21: the wrapper of a verb call uses the value the owner's cache
\* attribute has when the call is made: with None the method is entered and
\* nothing is looked up or stored; with a mapping a successful call that is
\* not answered from it stores its response in it, and an answer from it is
\* an entry of it; mappings that belong neither to the owner nor to the
\* client the method calls are left as they were.
C21_CacheResolvedAtCall ==
    [][(last'.op = "verb" /\ ops' = ops + 1) =>
          LET o == last'.ctx
              e == log'[Len(log')]
              c == cacheOf[o]
          IN  /\ e.owner = o
              /\ e.cid = c
              /\ c = None => (e.entered /\ ~e.hit /\ ~e.stored)
              /\ (c # None /\ e.raised = "" /\ ~e.hit)
                    => /\ e.stored
                       /\ Len(cache'[c]) = Len(cache[c]) + 1
                       /\ cache'[c][Len(cache'[c])].v = e.resp
              /\ e.hit => (c # None /\ \E k \in 1..Len(cache[c]) : cache[c][k].v = e.resp)
              /\ \A d \in CacheIds \ {c, cacheOf[Api]} : cache'[d] = cache[d]
      ]_vars

\* a node called without a cache, later given a mapping, stores in it
C21_Witness ==
    \E i, j \in Calls :
        /\ i < j /\ SameCall(i, j) /\ log[i].owner # Api
        /\ log[i].cid = None /\ log[i].issued
        /\ log[j].cid # None /\ log[j].stored
        /\ cacheOf[log[j].owner] = log[j].cid

\* C22: after children.clear() the child set is empty and every node that
\* was in it is detached: its parent is None and its path is its own segment
C22_ClearDetaches ==
    [][(last'.op = "clear" /\ ops' = ops + 1) =>
          /\ children'[last'.ctx] = <<>>
          /\ \A c \in Elements(children[last'.ctx]) :
                /\ parent'[c] = None
                /\ PathOf(parent', segment', c, MaxNodes) = segment'[c]
      ]_vars

Named(p, ref) == {c \in Elements(children[p]) : segment[c] = ref}

\* C24: in a tree, children.get(name) changes nothing and returns None when
\* no child has that segment (a child with it otherwise); children.pop(name)
\* returns None and changes nothing when no child has that segment, and
\* otherwise removes exactly one child with it and returns that child
C24_LookupNeverCreates ==
    [][(ops' = ops + 1 /\ last'.op \in {"get", "pop"} /\ TreeShaped) =>
          LET p == last'.ctx
              ref == last'.name
          IN  /\ created' = created
              /\ IF Named(p, ref) = {}
                 THEN /\ last'.result = None
                      /\ last'.raised = ""
                      /\ UNCHANGED treeVars
                 ELSE /\ last'.result \in Named(p, ref)
                      /\ last'.op = "get" => UNCHANGED treeVars
                      /\ last'.op = "pop" =>
                            /\ last'.raised = ""
                            /\ Elements(children'[p]) = Elements(children[p]) \ {last'.result}
      ]_vars

\* C25: navigating from a node with a key that is neither a string nor an
\* integer, through +, / or item access, raises TypeError and leaves the
\* tree as it was (no segment is made of the key)
C25_BadKeyRaisesTypeError ==
    [][(ops' = ops + 1 /\ last'.op = "navkey") =>
          /\ last'.raised = "TypeError"
          /\ UNCHANGED treeVars
      ]_vars

\* C26: the segment of every node contains no "/"
C26_SegmentHasNoSeparator ==
    \A n \in created : \A i \in 1..Len(segment[n]) : segment[n][i] # Sep

\* C27: a request leaves the default headers and params of the client as
\* they were (merge changes none of its arguments, at any depth)
C27_MergeKeepsDefaults ==
    [][(ops' = ops + 1 /\ last'.op = "request") =>
          /\ client'.headers = client.headers
          /\ client'.params = client.params
      ]_vars

\* C28: the session of a SessionAPI is active after start() or the entry of
\* a with-block and until the following close() or exit of the block, also
\* when the block raised, and at no other time; close() without an active
\* session changes nothing and raises nothing
C28_SessionLifecycle ==
    [][(ops' = ops + 1 /\ client.kind = "SessionAPI") =>
          /\ last'.op \in {"start", "enter"} => client'.session
          /\ last'.op \in {"close", "exit"} => ~client'.session
          /\ last'.op \notin {"start", "enter", "close", "exit"}
                => client'.session = client.session
          /\ (last'.op = "close" /\ ~client.session)
                => (last'.raised = "" /\ client' = client)
      ]_vars

C28_Witness ==
    /\ client.kind = "SessionAPI"
    /\ last.op = "exit"
    /\ last.raised = "Exception"
    /\ ~client.session
    /\ ~client.within

\* what a layer holds, the nested dict read through
Contents(layer, heap) ==
    [s |-> layer.s, dotted |-> layer.dotted,
     a |-> IF IsRef(layer.a) THEN "dict" ELSE layer.a,
     nested |-> IF IsRef(layer.a) THEN heap[Id(layer.a)] ELSE NoDict]

\* C29: a step of update or of item assignment (dotted keys included) keeps
\* the number of layers, and every layer below the pending top layer holds
\* after the step exactly what it held before.
C29_WritesOnlyTopLayer ==
    [][last'.op \in {"update", "setitem"} =>
        /\ Len(state'.maps) = Len(state.maps)
        /\ \A i \in 2..Len(state.maps) :
              Contents(state'.maps[i], state'.heap) = Contents(state.maps[i], state.heap)]_vars

\* C30: a save step with a non-empty pending layer puts a new empty layer on
\* top of the unchanged old layers; a save step with an empty pending layer
\* leaves the layers as they are; so the pending layer is empty after every
\* save, and a save that directly follows a save changes nothing.
C30_SaveAddsLayerOnlyWhenPending ==
    [][last'.op = "save" =>
        /\ state'.heap = state.heap
        /\ state'.maps[1] = NoLayer
        /\ state.maps[1] # NoLayer => state'.maps = <<NoLayer>> \o state.maps
        /\ state.maps[1] = NoLayer => state'.maps = state.maps
        /\ last.op = "save" => state' = state]_vars

\* a save has moved pending changes below a new empty top layer, and a
\* second save right after it has added nothing
C30_Witness ==
    /\ last.op = "save"
    /\ ops = 3
    /\ Len(state.maps) = 3
    /\ state.maps[1] = NoLayer
    /\ state.maps[2] # NoLayer

\* C31: every next() on the generator makes as many calls of the wrapped
\* request as it yields items, at most one; the first next() always makes a
\* call; a later next() makes a call exactly when the callback, given the
\* reduced state and the response yielded last, returns false, so that
\* response was yielded whatever the callback says about it; the item
\* yielded is the response of the call; once the callback has returned true
\* no next() makes a call.
C31_OneCallPerItemUntilCallback ==
    [][last'.op = "next" =>
        LET made == pager'.calls - pager.calls
        IN  /\ made = pager'.yielded - pager.yielded
            /\ made \in {0, 1}
            /\ pager.pos = "new" => made = 1
            /\ pager.pos = "suspended" =>
                  (made = 0 <=> callback(reducer(pager.state, pager.response),
                                         pager.response))
            /\ made = 1 => last'.item = pager'.response /\ last'.raised = ""
            /\ made = 0 => last'.raised = "StopIteration" /\ pager'.pos = "done"
            /\ pager.completed => made = 0]_vars

\* two items were pulled, the second one completed the request, and the
\* third next() found the generator exhausted
C31_Witness ==
    /\ last.op = "next" /\ last.raised = "StopIteration"
    /\ pager.completed
    /\ pager.calls = 2 /\ pager.yielded = 2

\* C32: every verb call on a node is sent, with headers and params that are
\* the client's defaults overlaid with the node's own values overlaid with
\* the values of the call: for a key of several levels the call's value wins
\* over the node's and the node's over the client's.
C32_CallOverNodeOverClient ==
    last.op = "verb"
        => /\ last.sent
           /\ last.headers = Overlay(Overlay(last.hdefaults, last.hlocal), last.hargs)
           /\ last.params = Overlay(Overlay(last.qdefaults, last.qlocal), last.qargs)

\* C33: after rollback, what the state shows is what it showed at the most
\* recent save, or at construction when save was never called.
C33_RollbackRestoresSaved ==
    last.op = "rollback" => Visible(state.maps, state.heap) = state.saved

\* C34: in every reachable state the parent relation is acyclic: following
\* the parents of any node ends at a node without parent, so no node is its
\* own ancestor and the path of every node can be computed.
C34_ParentsAcyclic ==
    \A n \in created :
        /\ ChainOf(parent, n, MaxNodes) # <<>>
        /\ path(n) # RecursionError

\* C35: every request a client sends goes through the TransportAdapter.
C35_SentThroughTransportAdapter ==
    (last.op = "request" /\ last.sent) => last.via = "TransportAdapter"

\* what call i returned: a response, an error caught on the way, or nothing
\* because it raised
Returned(i) == IF log[i].resp = 0 THEN "none" ELSE transport[log[i].resp]
ReturnedError(i) == Ok(i) /\ Returned(i) \in {"ConnectionError", "Timeout"}

\* every call that ran its method with a cache and returned an error stored it
ErrorsStored ==
    \A i \in Calls :
        (ReturnedError(i) /\ UsesCache(i) /\ log[i].entered) => log[i].stored

\* the statement of C36 as written: with a cache mapping, an error returned
\* by a call is stored, and every later call with the same verb, owner and
\* arguments returns that error and issues no request.
C36_ErrorsCachedPerSignature ==
    /\ ErrorsStored
    /\ \A i, j \in Calls :
          (/\ i < j /\ SameCall(i, j)
           /\ UsesCache(i) /\ log[i].cid = log[j].cid
           /\ ReturnedError(i) /\ Ok(j)
           /\ \A k \in 1..(i - 1) : ~(SameCall(k, i) /\ Ok(k) /\ log[k].cid = log[i].cid))
          => /\ ~log[j].issued
             /\ log[j].resp = log[i].resp

\* C36 (amended): with a cache mapping, an error returned by a call is
\* stored like a response; for an owner whose mapping holds only entries
\* stored for that owner, every later call with the same verb, owner,
\* effective path of the owner at the call and arguments is answered from
\* the mapping with that same error and issues no request.
C36_ErrorsCachedPerSignatureAndPath ==
    /\ ErrorsStored
    /\ \A i, j \in Calls :
          (/\ i < j /\ SameCall(i, j) /\ log[i].path = log[j].path
           /\ UsesCache(i) /\ log[i].cid = log[j].cid /\ log[j].private
           /\ ReturnedError(i) /\ Ok(j)
           /\ \A k \in 1..(i - 1) : ~(/\ SameCall(k, i) /\ log[k].path = log[i].path
                                      /\ Ok(k) /\ log[k].cid = log[i].cid))
          => /\ ~log[j].issued
             /\ log[j].hit
             /\ log[j].resp = log[i].resp
             /\ ReturnedError(j)

\* a node got a timeout, stored it, and its next call was answered with it
C36_Witness ==
    \E i, j \in Calls :
        /\ i < j /\ SameCall(i, j) /\ log[i].path = log[j].path
        /\ log[i].owner # Api
        /\ UsesCache(i) /\ log[i].cid = log[j].cid /\ log[j].private
        /\ Returned(i) = "Timeout" /\ log[i].stored /\ log[i].issued
        /\ log[j].hit /\ ~log[j].issued /\ log[j].resp = log[i].resp
        /\ requests = 1

\* C37: a call on a node that returns a response, answered from the node's
\* cache mapping, from the client's or by a new request, returns one that a
\* request fetched with the same verb for the path the node has at the time
\* of the call.
C37_HitMatchesVerbAndPath ==
    \A j \in Calls :
        (log[j].owner # Api /\ Ok(j) /\ log[j].resp # 0) =>
            \E i \in 1..(j - 1) :
                /\ log[i].owner = Api /\ log[i].issued
                /\ log[i].resp = log[j].resp
                /\ log[i].verb = log[j].verb
                /\ log[i].rest[1] = Str(log[j].path)

\* a node was answered from a mapping it shares with another node, with the
\* response that the other node fetched
C37_Witness ==
    \E i, j \in Calls :
        /\ i < j
        /\ log[i].owner # Api /\ log[j].owner # Api /\ log[i].owner # log[j].owner
        /\ log[i].stored /\ log[i].issued
        /\ log[j].hit /\ log[j].resp = log[i].resp
        /\ log[i].path = log[j].path

\* C38: a request of a SessionAPI is sent to the same url with the same
\* headers and params as the same request would be with the session in the
\* other state (started instead of not started, or the reverse), and is sent
\* in the one case exactly when it is in the other.
C38_SessionStateIrrelevant ==
    (last.op = "request" /\ client.kind = "SessionAPI") =>
        LET pre == [client EXCEPT !.headers = last.hdefaults, !.params = last.qdefaults]
            other == SessionRequest([pre EXCEPT !.session = ~pre.session], last.route,
                                    last.hargs, last.qargs, last.outcome)
        IN  /\ other.sent = last.sent
            /\ other.url = last.url
            /\ other.headers = last.headers
            /\ other.params = last.params

\* C39: after a close, no session that a start made is left unclosed.
C39_NoSessionLeftOpen ==
    last.op = "close" => (~client.session /\ client.dropped = 0)

====
